---- MODULE Spec2Model ----
(***************************************************************************)
(* Offline manager of the family-safety application: the queue of pending  *)
(* mutations (src/src/utils/offlineManager.ts, class OfflineManager), its  *)
(* drain (syncWhenOnline / syncAction), the durable copy in localStorage   *)
(* (saveOfflineData / loadOfflineData) and the triggers that start a drain *)
(* (online event, visibility change, periodic tick, queueAction).          *)
(*                                                                         *)
(* JavaScript runs the handlers on one event loop: a handler runs without  *)
(* interruption up to its next await.  The only awaits of the drain are    *)
(* the remote writes of syncAction, so a drain in flight is always waiting*)
(* for the answer to one remote write, and every action below is one      *)
(* handler run from one suspension point to the next.                      *)
(*                                                                         *)
(* localStorage.setItem is taken to succeed (the store is not full).       *)
(* Date.now() is a logical clock that advances with every queueAction.     *)
(*                                                                         *)
(* Around the manager, each with a specification of its own over the same  *)
(* variables:                                                              *)
(*  - the background service (src/src/utils/backgroundService.ts): start,  *)
(*    stop, the wake lock and its 'release' listener, the location watch   *)
(*    with the direct dispatch of its samples, the devicemotion listener;  *)
(*  - the senders of the child's page (src/unnamed/part_001): chat         *)
(*    messages and SOS alerts, written directly or enqueued;               *)
(*  - the two shake counters, GestureManager.handleDeviceMotion and the    *)
(*    service worker's handleGestureData (src/src/App.tsx), fed with the   *)
(*    same events on a clock in units of 100 ms;                           *)
(*  - the node children/{childCode} of the realtime database, under the    *)
(*    set() and push() of a location dispatch and the parent's writes.     *)
(***************************************************************************)
EXTENDS Integers, Sequences, FiniteSets, TLC

\* ---------------------------------------------------------------- bounds
MaxActions == 3      \* actions ever enqueued
MaxDrains == 2       \* slots for drains in flight (the code needs one)
MaxRestarts == 1     \* page reloads

\* ------------------------------------------------------ program constants
maxRetries == 3      \* OfflineManager.maxRetries

Ids == 1..MaxActions
DrainIds == 1..MaxDrains

\* QueuedAction['type']
ActionTypes == {"location", "message", "sos", "status"}

\* The value of a property that holds undefined (accuracy || undefined).
Undefined == "undefined"

\* The payloads the producers hand to queueAction, as maps from property
\* path to value.  A location sample may carry properties that hold
\* undefined; the other payloads never do.
LocationData(acc) ==
    [k \in {"childCode", "lastLocation.lat", "lastLocation.accuracy"} |->
        CASE k = "childCode" -> "c1"
          [] k = "lastLocation.lat" -> "12.9"
          [] OTHER -> acc]
MessageData == [k \in {"childCode", "message.text"} |->
                  IF k = "childCode" THEN "c1" ELSE "hi"]
SosData == [k \in {"childCode", "lat", "accuracy"} |->
              CASE k = "childCode" -> "c1" [] k = "lat" -> "12.9" [] OTHER -> "0"]
StatusData == [k \in {"childCode", "status"} |->
                 IF k = "childCode" THEN "c1" ELSE "online"]

ProducerInputs ==
    { <<"location", LocationData(Undefined)>>, <<"message", MessageData>>,
      <<"sos", SosData>>, <<"status", StatusData>> }

\* obj.key in JavaScript: a missing property reads as undefined.
Get(obj, key) == IF key \in DOMAIN obj THEN obj[key] ELSE Undefined

JsonData_Truthy(data) ==
    [k \in {key \in DOMAIN data : data[key] \notin {Undefined, "0"}} |-> data[k]]

\* JSON.parse(JSON.stringify(data)) for a payload: JSON.stringify leaves out
\* every property whose value is undefined.
JsonData(data) ==
    [k \in {key \in DOMAIN data : data[key] # Undefined} |-> data[k]]

\* JSON image of one QueuedAction.
JsonAction(a) ==
    [id |-> a.id, type |-> a.type, data |-> JsonData(a.data),
     timestamp |-> a.timestamp, retryCount |-> a.retryCount]

\* Number of remote writes syncAction awaits for an action of this type:
\* location does set(children/c) and then push(children/c/locationHistory).
NumWrites(type) == IF type = "location" THEN 2 ELSE 1

\* Elements of s that satisfy keep, in order (Array.prototype.filter).
RECURSIVE FilterSeq(_, _)
FilterSeq(s, keep) ==
    IF s = <<>> THEN <<>>
    ELSE IF Head(s) \in keep THEN <<Head(s)>> \o FilterSeq(Tail(s), keep)
         ELSE FilterSeq(Tail(s), keep)

Range(s) == {s[k] : k \in 1..Len(s)}

VARIABLES
    isOnline,        \* OfflineManager.isOnline
    syncQueue,       \* OfflineManager.syncQueue: sequence of references (ids)
    objs,            \* the QueuedAction objects, by id
    offlineData,     \* OfflineManager.offlineData
    syncInProgress,  \* OfflineManager.syncInProgress
    drains,          \* the invocations of syncWhenOnline that are suspended
    ls,              \* localStorage: safestep_offline_data, safestep_sync_queue
    nextId,          \* next fresh id; nextId - 1 stands for Date.now()
    acked,           \* remote writes acknowledged, per action and write
    attempts,        \* dispatches started, per action
    failures,        \* dispatches answered with a failure, per action
    removed,         \* the actions the batch removal of the last step took out
    restarts,        \* page reloads so far
    returned,        \* what the last call of queueAction returned
    status           \* what the last call of getSyncStatus returned

\* objs, acked, attempts and failures record what this page load has seen of
\* the actions that are queued, held by a suspended drain or just removed.

\* The variables of the offline manager.
omVars == <<isOnline, syncQueue, objs, offlineData, syncInProgress, drains, ls,
            nextId, acked, attempts, failures, removed, restarts, returned,
            status>>

\* ------------------------------------------- the background service's state

MaxStarts == 2       \* calls of BackgroundService.start
MaxStops == 1        \* calls of BackgroundService.stop
MaxLocks == 2        \* wake lock sentinels the platform ever grants
MaxSamples == 1      \* position samples delivered to the watch callback
MaxErrors == 1       \* errors delivered to the watch's error callback
MaxMotion == 1       \* GESTURE_DATA messages posted to the service worker

VARIABLES
    service,         \* the BackgroundService instance: its fields (0 is null)
    platform,        \* what the page's platform offers, fixed per page load
    browser,         \* what the browser holds for the page: watches, timers,
                     \* wake lock sentinels, listeners, pending requests
    startCalls,      \* the calls of start(): where each is, or what it returned
    stopCalls,       \* the calls of stop() that have returned
    samples          \* the position samples delivered to the watch callback

bgVars == <<service, platform, browser, startCalls, stopCalls, samples>>

\* ---------------------------------------------------- the producers' state

MaxItems == 2        \* chat messages and SOS alerts the senders produce

VARIABLES
    outbox           \* the messages and alerts produced, and where each is

ctVars == <<outbox>>

\* ------------------------------------------------ the shake counters' state

MaxEvents == 6       \* devicemotion events

VARIABLES
    clock,           \* Date.now(), in units of 100 ms
    gesture,         \* the GestureManager's shake fields
    worker,          \* gestureState of the service worker, and its timers
    events           \* the devicemotion events: how many, what the last one
                     \* did, the log of the scenario, the panic events fired

gmVars == <<clock, gesture, worker, events>>

\* ---------------------------------------------------- the remote store's state

MaxWrites == 3       \* location dispatches

VARIABLES
    remote           \* children/{childCode} in the remote store, the location
                     \* dispatch in progress, and what has been written so far

rsVars == <<remote>>

vars == <<omVars, bgVars, ctVars, gmVars, rsVars>>

\* The variables of the other components.
elsewhere == <<bgVars, ctVars, gmVars, rsVars>>

\* The variables outside the background service.
notService == <<omVars, ctVars, gmVars, rsVars>>

Now == nextId - 1

Writes == Ids \X {1, 2}

\* A slot of drains that holds no suspended invocation.
Idle == [active |-> FALSE, snap |-> <<>>, i |-> 0, w |-> 0, marked |-> <<>>]

EmptyOfflineData(now) ==
    [locations |-> <<>>, messages |-> <<>>, sosAlerts |-> <<>>, lastSync |-> now]

SaveOfflineData_DataOnly(data, queue, heap) ==
    [present |-> TRUE, offlineData |-> data, syncQueue |-> ls.syncQueue]

\* saveOfflineData: both blobs are rewritten from the fields.
SaveOfflineData(data, queue, heap) ==
    [present |-> TRUE,
     offlineData |-> data,
     syncQueue |-> [k \in 1..Len(queue) |-> JsonAction(heap[queue[k]])]]

StoreOfflineData_AtCapacity(data, type, item) ==
    LET pushed == Append(data[type], item)
    IN [data EXCEPT ![type] = IF Len(pushed) >= 100
                              THEN SubSeq(pushed, 51, Len(pushed))
                              ELSE pushed]

StoreOfflineData_DropsNewest(data, type, item) ==
    LET pushed == Append(data[type], item)
    IN [data EXCEPT ![type] = IF Len(pushed) > 100
                              THEN SubSeq(pushed, 1, Len(pushed) - 50)
                              ELSE pushed]

\* storeOfflineData(type, data) up to its saveOfflineData, for a category
\* list: the item is pushed and a list longer than 100 loses its first 50.
StoreOfflineData(data, type, item) ==
    LET pushed == Append(data[type], item)
    IN [data EXCEPT ![type] = IF Len(pushed) > 100
                              THEN SubSeq(pushed, 51, Len(pushed))
                              ELSE pushed]

\* The message of sendQuickMessage as the cache keeps it.
CachedMessage == [text |-> "hi", offline |-> TRUE, timestamp |-> Now]

\* The category lists of offlineData.
Categories == {"locations", "messages", "sosAlerts"}

MaxStored == 150     \* calls of storeOfflineData for one category
MaxOthers == 1       \* calls for each category but the one that is filled

\* The calls of storeOfflineData made so far for the category type, when
\* the callers number their payloads from 1 and nothing clears the cache.
Stored(type) ==
    IF offlineData[type] = <<>> THEN 0
    ELSE offlineData[type][Len(offlineData[type])].n

\* storeOfflineData(type, {n}) for a category list, with the payloads of a
\* category numbered in the order of the calls.
StoreOfflineDataCall(type) ==
    /\ Stored(type) < MaxStored
    /\ \/ Stored(type) < MaxOthers
       \/ \A other \in Categories \ {type} : Stored(other) <= MaxOthers
    /\ \E item \in {[n |-> Stored(type) + 1, offline |-> TRUE,
                      timestamp |-> Now]} :
       \E data \in {StoreOfflineData(offlineData, type, item)} :
          /\ offlineData' = data
          /\ ls' = SaveOfflineData(data, syncQueue, objs)
    /\ UNCHANGED <<isOnline, syncQueue, objs, syncInProgress, drains, nextId,
                   acked, attempts, failures, removed, restarts, returned,
                   status, elsewhere>>

\* The ids some drain of drs still holds in its snapshot.
Held(drs) == UNION {Range(drs[d].snap) : d \in {e \in DOMAIN drs : drs[e].active}}

\* The step's record of the actions: heap, acks, tries and fails are the
\* objects and the counts after the step, gone the actions its batch removal
\* took out; what nothing refers to any more is forgotten.
Observe(heap, acks, tries, fails, gone) ==
    \E live \in {Range(syncQueue') \cup Held(drains') \cup gone} :
    \E h \in {heap}, a \in {acks}, t \in {tries}, f \in {fails} :
       /\ objs' = [x \in DOMAIN h \cap live |-> h[x]]
       /\ acked' = [x \in Writes |-> IF x[1] \in live THEN a[x] ELSE 0]
       /\ attempts' = [x \in Ids |-> IF x \in live THEN t[x] ELSE 0]
       /\ failures' = [x \in Ids |-> IF x \in live THEN f[x] ELSE 0]
       /\ removed' = gone

InitManager ==
    /\ isOnline \in BOOLEAN
    /\ syncQueue = <<>>
    /\ objs = <<>>
    /\ offlineData = EmptyOfflineData(0)
    /\ syncInProgress = FALSE
    /\ drains = [d \in DrainIds |-> Idle]
    /\ ls = [present |-> FALSE, offlineData |-> EmptyOfflineData(0), syncQueue |-> <<>>]
    /\ nextId = 1
    /\ acked = [x \in Writes |-> 0]
    /\ attempts = [x \in Ids |-> 0]
    /\ failures = [x \in Ids |-> 0]
    /\ removed = {}
    /\ restarts = 0
    /\ returned = 0
    /\ status = <<>>

\* ------------------------------------------------------------ syncWhenOnline

CanStartSync_NoFlag(online, queue) ==
    online /\ Len(queue) # 0

\* The guard of syncWhenOnline, negated: the call goes on to drain.
CanStartSync(online, queue) ==
    online /\ ~syncInProgress /\ Len(queue) # 0

Snapshot_Reversed(queue) ==
    [k \in 1..Len(queue) |-> queue[Len(queue) + 1 - k]]

\* const actionsToSync = [...this.syncQueue]
Snapshot(queue) == queue

FreeSlots == {d \in DrainIds : ~drains[d].active}
FreeSlot == CHOOSE d \in FreeSlots : \A e \in FreeSlots : d <= e

\* syncWhenOnline from its call to its first await, for a call made when
\* the fields are online and queue: either it returns at once, or it sets
\* syncInProgress, takes the snapshot and starts the dispatch of the first
\* action.  The result is the fields after the call.
SyncWhenOnline(online, queue) ==
    IF CanStartSync(online, queue) /\ FreeSlots # {}
    THEN LET snap == Snapshot(queue) IN
         [syncInProgress |-> TRUE,
          drains |-> [drains EXCEPT ![FreeSlot] =
                        [active |-> TRUE, snap |-> snap, i |-> 1, w |-> 1,
                         marked |-> <<>>]],
          attempts |-> [attempts EXCEPT ![snap[1]] = @ + 1]]
    ELSE [syncInProgress |-> syncInProgress, drains |-> drains,
          attempts |-> attempts]

\* ------------------------------------------------------------------ triggers

\* window 'online' listener.
OnlineEvent ==
    /\ ~isOnline
    /\ isOnline' = TRUE
    /\ \E call \in {SyncWhenOnline(TRUE, syncQueue)} :
       /\ syncInProgress' = call.syncInProgress
       /\ drains' = call.drains
       /\ UNCHANGED <<syncQueue, offlineData, ls, nextId, restarts, returned, status, elsewhere>>
       /\ Observe(objs, acked, call.attempts, failures, {})

\* window 'offline' listener.
OfflineEvent ==
    /\ isOnline
    /\ isOnline' = FALSE
    /\ UNCHANGED <<syncQueue, offlineData, syncInProgress, drains, ls, nextId,
                   restarts, returned, status, elsewhere>>
    /\ Observe(objs, acked, attempts, failures, {})

\* document 'visibilitychange' listener; hidden is document.hidden.
VisibilityChange ==
    \E hidden \in BOOLEAN :
       \E call \in {IF ~hidden /\ isOnline
                    THEN SyncWhenOnline(isOnline, syncQueue)
                    ELSE [syncInProgress |-> syncInProgress, drains |-> drains,
                          attempts |-> attempts]} :
          /\ syncInProgress' = call.syncInProgress
          /\ drains' = call.drains
          /\ UNCHANGED <<isOnline, syncQueue, offlineData, ls, nextId, restarts, returned, status, elsewhere>>
          /\ Observe(objs, acked, call.attempts, failures, {})

PeriodicTick_Idle == UNCHANGED vars

\* The setInterval callback of startPeriodicSync.
PeriodicTick ==
    \E call \in {IF isOnline /\ Len(syncQueue) > 0
                 THEN SyncWhenOnline(isOnline, syncQueue)
                 ELSE [syncInProgress |-> syncInProgress, drains |-> drains,
                       attempts |-> attempts]} :
       /\ syncInProgress' = call.syncInProgress
       /\ drains' = call.drains
       /\ UNCHANGED <<isOnline, syncQueue, offlineData, ls, nextId, restarts, returned, status, elsewhere>>
       /\ Observe(objs, acked, call.attempts, failures, {})

NewAction_Retried(type, data) ==
    [id |-> nextId, type |-> type, data |-> data, timestamp |-> nextId,
     retryCount |-> 1]

\* The action object queueAction builds.
NewAction(type, data) ==
    [id |-> nextId, type |-> type, data |-> data, timestamp |-> nextId,
     retryCount |-> 0]

\* A call of queueAction(type, data), from its first statement to its
\* return, followed at once, if store is <<category, item>> and not <<>>, by
\* a call of storeOfflineData(category, item).
QueueThenStore(type, data, store) ==
    /\ nextId <= MaxActions
    /\ LET action == NewAction(type, data)
           heap == objs @@ (nextId :> action)
           queue == Append(syncQueue, nextId)
           call == SyncWhenOnline(isOnline, queue)
           cache == IF store = <<>> THEN offlineData
                    ELSE StoreOfflineData(offlineData, store[1], store[2])
       IN /\ syncQueue' = queue
          /\ offlineData' = cache
          /\ ls' = SaveOfflineData(cache, queue, heap)
          /\ syncInProgress' = call.syncInProgress
          /\ drains' = call.drains
          /\ nextId' = nextId + 1
          /\ returned' = action.id
          /\ UNCHANGED <<isOnline, restarts, status>>
          /\ Observe(heap, acked, call.attempts, failures, {})

\* A call of queueAction(type, data), from its first statement to its return.
QueueActionCall(type, data) == QueueThenStore(type, data, <<>>)

\* queueAction(type, data), called with nothing else going on.
QueueAction(type, data) ==
    /\ QueueActionCall(type, data)
    /\ UNCHANGED elsewhere

\* --------------------------------------------------------- the drain's loop

RetryExhausted_Late(retryCount) == retryCount > maxRetries

\* action.retryCount >= this.maxRetries
RetryExhausted(retryCount) == retryCount >= maxRetries

RemoveSynced_First(queue, successfulSyncs) ==
    IF successfulSyncs = <<>> THEN queue
    ELSE FilterSeq(queue, Ids \ {successfulSyncs[1]})

RemoveSynced_All(queue, successfulSyncs) ==
    IF successfulSyncs = <<>> THEN queue ELSE <<>>

\* this.syncQueue.filter(action => !successfulSyncs.includes(action.id))
RemoveSynced(queue, successfulSyncs) ==
    FilterSeq(queue, Ids \ Range(successfulSyncs))

\* The drain in slot d goes on after the outcome of its current action is
\* known, with heap the objects, acks the acknowledged writes, fails the
\* failure counts and marked its successfulSyncs after that outcome: it
\* starts the dispatch of the next action of the snapshot, or, after the
\* last one, removes the marked actions, stamps lastSync, saves and resets
\* syncInProgress.
Continue(d, heap, acks, fails, marked) ==
    LET dr == drains[d] IN
    /\ UNCHANGED <<isOnline, nextId, restarts, returned, status, elsewhere>>
    /\ IF dr.i < Len(dr.snap)
       THEN LET next == dr.snap[dr.i + 1] IN
            /\ drains' = [drains EXCEPT ![d] =
                   [dr EXCEPT !.i = dr.i + 1, !.w = 1, !.marked = marked]]
            /\ UNCHANGED <<syncQueue, offlineData, syncInProgress, ls>>
            /\ Observe(heap, acks, [attempts EXCEPT ![next] = @ + 1], fails, {})
       ELSE LET queue == RemoveSynced(syncQueue, marked)
                data == [offlineData EXCEPT !.lastSync = Now]
            IN /\ syncQueue' = queue
               /\ offlineData' = data
               /\ ls' = SaveOfflineData(data, queue, heap)
               /\ syncInProgress' = FALSE
               /\ drains' = [drains EXCEPT ![d] = Idle]
               /\ Observe(heap, acks, attempts, fails,
                          Range(syncQueue) \ Range(queue))

\* The remote store acknowledges the write the drain in slot d waits for.
DispatchOk(d) ==
    LET dr == drains[d]
        cur == dr.snap[dr.i]
        acks == [acked EXCEPT ![<<cur, dr.w>>] = @ + 1]
    IN /\ dr.active
       /\ IF dr.w < NumWrites(objs[cur].type)
          THEN /\ drains' = [drains EXCEPT ![d].w = dr.w + 1]
               /\ UNCHANGED <<isOnline, syncQueue, offlineData, syncInProgress,
                              ls, nextId, restarts, returned, status, elsewhere>>
               /\ Observe(objs, acks, attempts, failures, {})
          ELSE Continue(d, objs, acks, failures, Append(dr.marked, cur))

DispatchFail_Aborts(d) ==
    LET dr == drains[d]
        cur == dr.snap[dr.i]
        heap == [objs EXCEPT ![cur].retryCount = @ + 1]
        queue == RemoveSynced(syncQueue, dr.marked)
        data == [offlineData EXCEPT !.lastSync = Now]
    IN /\ dr.active
       /\ UNCHANGED <<isOnline, nextId, restarts, returned, status, elsewhere>>
       /\ syncQueue' = queue
       /\ offlineData' = data
       /\ ls' = SaveOfflineData(data, queue, heap)
       /\ syncInProgress' = FALSE
       /\ drains' = [drains EXCEPT ![d] = Idle]
       /\ Observe(heap, acked, attempts, [failures EXCEPT ![cur] = @ + 1],
                  Range(syncQueue) \ Range(queue))

\* The write the drain in slot d waits for fails: syncAction returns false.
DispatchFail(d) ==
    LET dr == drains[d]
        cur == dr.snap[dr.i]
        heap == [objs EXCEPT ![cur].retryCount = @ + 1]
        marked == IF RetryExhausted(heap[cur].retryCount)
                  THEN Append(dr.marked, cur) ELSE dr.marked
    IN /\ dr.active
       /\ Continue(d, heap, acked, [failures EXCEPT ![cur] = @ + 1], marked)

ClearOfflineData_MemoryOnly ==
    /\ offlineData' = EmptyOfflineData(Now)
    /\ syncQueue' = <<>>
    /\ UNCHANGED <<isOnline, ls, syncInProgress, drains, nextId, restarts, returned, status, elsewhere>>
    /\ Observe(objs, acked, attempts, failures, {})

\* clearOfflineData().
ClearOfflineData ==
    /\ offlineData' = EmptyOfflineData(Now)
    /\ syncQueue' = <<>>
    /\ ls' = SaveOfflineData(EmptyOfflineData(Now), <<>>, objs)
    /\ UNCHANGED <<isOnline, syncInProgress, drains, nextId, restarts, returned, status, elsewhere>>
    /\ Observe(objs, acked, attempts, failures, {})

\* ------------------------------------------------------------- page reload

\* A text in localStorage that JSON.parse rejects.
Malformed == [malformed |-> TRUE]

\* JSON.parse(text) returns.
Parses(text) == "malformed" \notin DOMAIN text

\* The structure test of loadOfflineData on the parsed offline data; a
\* property the object lacks is no array and no number.
ValidOfflineData(parsed) ==
    /\ {"locations", "messages", "sosAlerts", "lastSync"} \subseteq DOMAIN parsed
    /\ DOMAIN parsed.locations \subseteq Nat
    /\ DOMAIN parsed.messages \subseteq Nat
    /\ DOMAIN parsed.sosAlerts \subseteq Nat
    /\ parsed.lastSync \in Int

\* The test of loadOfflineData on one parsed queue item.
ValidItem(item) ==
    /\ item.id \in Int
    /\ item.type \in STRING
    /\ item.timestamp \in Int
    /\ item.retryCount \in Int

\* parsedQueue.filter(item => ...)
LoadQueue(parsedQueue) ==
    LET RECURSIVE Pick(_)
        Pick(k) == IF k > Len(parsedQueue) THEN <<>>
                   ELSE IF ValidItem(parsedQueue[k])
                        THEN <<parsedQueue[k]>> \o Pick(k + 1)
                        ELSE Pick(k + 1)
    IN Pick(1)

\* The page is closed and opened again: what was suspended is gone, and the
\* constructor of the new manager runs loadOfflineData on what localStorage
\* holds.  Both texts are read first.  Offline data that parses but fails the
\* structure test is replaced by resetOfflineData, which saves an empty
\* queue, and the queue is then filled from the text read before; offline
\* data that does not parse throws past the queue's part into the catch,
\* whose resetOfflineData leaves the queue empty.
Restart ==
    /\ restarts < MaxRestarts
    /\ restarts' = restarts + 1
    /\ isOnline' = isOnline      \* navigator.onLine, which the flag mirrors
    /\ syncInProgress' = FALSE
    /\ drains' = [d \in DrainIds |-> Idle]
    /\ LET valid == /\ ls.present
                    /\ Parses(ls.offlineData)
                    /\ ValidOfflineData(ls.offlineData)
           items == IF ls.present /\ Parses(ls.offlineData)
                    THEN LoadQueue(ls.syncQueue) ELSE <<>>
           data == IF valid THEN ls.offlineData ELSE EmptyOfflineData(Now)
           heap == [x \in {items[k].id : k \in 1..Len(items)} |->
                      items[CHOOSE k \in 1..Len(items) : items[k].id = x]]
       IN /\ offlineData' = data
          /\ syncQueue' = [k \in 1..Len(items) |-> items[k].id]
          /\ ls' = IF ls.present /\ ~valid
                   THEN SaveOfflineData(data, <<>>, objs) ELSE ls
          /\ Observe(heap, [x \in Writes |-> 0], [x \in Ids |-> 0],
                     [x \in Ids |-> 0], {})
    /\ UNCHANGED <<nextId, returned, status, elsewhere>>

\* The texts another writer of localStorage (an earlier version of the
\* page, the browser's developer tools) can leave under
\* 'safestep_offline_data': one that does not parse, and an object without
\* the category lists.
ForeignBlobs == {Malformed, [lastSync |-> 0]}

\* The cache text in localStorage is replaced from outside the manager.
ForeignWrite(text) ==
    /\ ls.present
    /\ Parses(ls.offlineData) /\ ValidOfflineData(ls.offlineData)
    /\ ls' = [ls EXCEPT !.offlineData = text]
    /\ UNCHANGED <<isOnline, syncQueue, objs, offlineData, syncInProgress,
                   drains, nextId, acked, attempts, failures, removed,
                   restarts, returned, status, elsewhere>>

GetSyncStatus_Idle ==
    [isOnline |-> isOnline, queuedActions |-> Len(syncQueue),
     lastSync |-> offlineData.lastSync, syncInProgress |-> FALSE]

\* getSyncStatus().
GetSyncStatus ==
    [isOnline |-> isOnline, queuedActions |-> Len(syncQueue),
     lastSync |-> offlineData.lastSync, syncInProgress |-> syncInProgress]

\* A call of getSyncStatus().
GetSyncStatusCall ==
    /\ status' = GetSyncStatus
    /\ UNCHANGED <<isOnline, syncQueue, objs, offlineData, syncInProgress,
                   drains, ls, nextId, acked, attempts, failures, removed,
                   restarts, returned, elsewhere>>

\* ===================================================== the background service
\*
\* BackgroundService (src/src/utils/backgroundService.ts).  start() waits
\* for the platform twice, for the wake lock and for the service worker
\* registration; everything after that runs without a wait that lets
\* another handler in.  stop() awaits wakeLock.release(), whose promise is
\* settled when release() returns and whose 'release' event is fired inside
\* release(), so stop() is one step that contains the first part of the
\* 'release' listener.  The battery read of handleLocationUpdate changes
\* nothing and is part of the delivery of the sample.

LockIds == 1..MaxLocks

\* The platforms a page can run on: navigator.geolocation present or not,
\* and whether the Notification constructor throws (permission granted on a
\* platform that only allows notifications from the service worker).
Platforms == [geolocation : BOOLEAN, notificationThrows : BOOLEAN]

InitService ==
    /\ service = [isRunning |-> FALSE, locationWatchId |-> 0,
                  heartbeatInterval |-> 0, wakeLock |-> 0,
                  serviceWorker |-> FALSE]
    /\ browser = [watches |-> {}, intervals |-> {},
                  locks |-> [s \in LockIds |->
                               [state |-> "free", listener |-> FALSE]],
                  motionListeners |-> 0, restartTimers |-> 0,
                  scheduled |-> <<>>,
                  wakeLockRequests |-> 0, nextHandle |-> 1,
                  errors |-> 0, gestureData |-> 0]
    /\ startCalls = <<>>
    /\ stopCalls = 0
    /\ samples = <<>>

FreeLocks(br) == {s \in LockIds : br.locks[s].state = "free"}

\* navigator.wakeLock.request('screen') resolves with a new sentinel; listener
\* says whether the caller then attaches the 'release' listener to it.
GrantLock(sv, br, listener) ==
    LET s == CHOOSE x \in FreeLocks(br) : \A y \in FreeLocks(br) : x <= y
    IN [service |-> [sv EXCEPT !.wakeLock = s],
        browser |-> [br EXCEPT !.locks[s] =
                        [state |-> "held", listener |-> listener]]]

\* The platform releases the sentinel s and fires its 'release' event: the
\* listener of acquireWakeLock, if s has it, requests a new lock when
\* isRunning is set.
ReleaseLock(sv, br, s) ==
    IF br.locks[s].state # "held" THEN br
    ELSE [br EXCEPT !.locks[s].state = "released",
                    !.wakeLockRequests =
                        IF br.locks[s].listener /\ sv.isRunning
                        THEN @ + 1 ELSE @]

\* startLocationTracking past its geolocation test: a new watch, whose id
\* replaces locationWatchId.
StartLocationTracking(sv, br) ==
    [service |-> [sv EXCEPT !.locationWatchId = br.nextHandle],
     browser |-> [br EXCEPT !.watches = @ \cup {br.nextHandle},
                            !.nextHandle = @ + 1]]

\* startHeartbeat: a new interval timer, whose id replaces heartbeatInterval.
StartHeartbeat(sv, br) ==
    [service |-> [sv EXCEPT !.heartbeatInterval = br.nextHandle],
     browser |-> [br EXCEPT !.intervals = @ \cup {br.nextHandle},
                            !.nextHandle = @ + 1]]

\* enableBackgroundGestures: one more devicemotion listener on window.
EnableBackgroundGestures(br) ==
    [br EXCEPT !.motionListeners = @ + 1]

\* start(childCode) is called; childCode says whether the argument is given.
\* The record of a call also keeps the sentinel its wake lock request was
\* answered with (lock) and whether stop() was called during its setup
\* (stopped).
StartCall(childCode) ==
    /\ Len(startCalls) < MaxStarts
    /\ startCalls' = Append(startCalls,
          [pc |-> IF service.isRunning THEN "true" ELSE "lock",
           childCode |-> childCode, lock |-> 0, stopped |-> FALSE])
    /\ UNCHANGED <<service, platform, browser, stopCalls, samples>>
    /\ UNCHANGED notService

\* The wake lock request of the start() call n is answered.
LockAnswer(n, granted) ==
    /\ n \in DOMAIN startCalls
    /\ startCalls[n].pc = "lock"
    /\ granted => FreeLocks(browser) # {}
    /\ \E got \in {IF granted THEN GrantLock(service, browser, TRUE)
                   ELSE [service |-> service, browser |-> browser]} :
          /\ service' = got.service
          /\ browser' = got.browser
          /\ startCalls' = [startCalls EXCEPT
                               ![n].pc = "sw",
                               ![n].lock = IF granted THEN got.service.wakeLock
                                           ELSE 0]
    /\ UNCHANGED <<platform, stopCalls, samples>>
    /\ UNCHANGED notService

\* start() from the answer of the service worker registration to its return,
\* for a call with the fields sv and the browser state br.
FinishStart(sv, br, childCode) ==
    IF childCode /\ ~platform.geolocation
    THEN [service |-> sv, browser |-> br, result |-> "false"]
    ELSE LET loc == IF childCode THEN StartLocationTracking(sv, br)
                    ELSE [service |-> sv, browser |-> br]
             hb == StartHeartbeat(loc.service, loc.browser)
             br2 == EnableBackgroundGestures(hb.browser)
         IN IF platform.notificationThrows
            THEN [service |-> hb.service, browser |-> br2, result |-> "false"]
            ELSE [service |-> [hb.service EXCEPT !.isRunning = TRUE],
                  browser |-> br2, result |-> "true"]

\* The service worker registration of the start() call n is answered:
\* active (registration.active is the worker), waiting (registration.active
\* is null) or failed; the call then runs to its return.
SwAnswer(n, outcome) ==
    /\ n \in DOMAIN startCalls
    /\ startCalls[n].pc = "sw"
    /\ \E sv \in {IF outcome = "failed" THEN service
                  ELSE [service EXCEPT !.serviceWorker = (outcome = "active")]} :
       \E end \in {FinishStart(sv, browser, startCalls[n].childCode)} :
          /\ service' = end.service
          /\ browser' = end.browser
          /\ startCalls' = [startCalls EXCEPT ![n].pc = end.result]
    /\ UNCHANGED <<platform, stopCalls, samples>>
    /\ UNCHANGED notService

\* stop() on a running service with the fields sv and the browser state br;
\* rejects says whether wakeLock.release() rejects.
StopService(sv, br, rejects) ==
    LET br1 == [br EXCEPT !.watches = @ \ {sv.locationWatchId},
                          !.intervals = @ \ {sv.heartbeatInterval}]
        sv1 == [sv EXCEPT !.locationWatchId = 0, !.heartbeatInterval = 0]
        br2 == IF sv.wakeLock # 0 THEN ReleaseLock(sv, br1, sv.wakeLock)
               ELSE br1
    IN IF rejects
       THEN [service |-> sv1, browser |-> br2]
       ELSE [service |-> [sv1 EXCEPT !.wakeLock = 0, !.isRunning = FALSE],
             browser |-> br2]

\* stop() is called and returns.
StopCall(rejects) ==
    /\ stopCalls < MaxStops
    /\ rejects => (service.isRunning /\ service.wakeLock # 0)
    /\ stopCalls' = stopCalls + 1
    /\ \E end \in {IF service.isRunning
                   THEN StopService(service, browser, rejects)
                   ELSE [service |-> service, browser |-> browser]} :
          /\ service' = end.service
          /\ browser' = end.browser
    /\ startCalls' = [n \in DOMAIN startCalls |->
                         IF startCalls[n].pc \in {"lock", "sw"}
                         THEN [startCalls[n] EXCEPT !.stopped = TRUE]
                         ELSE startCalls[n]]
    /\ UNCHANGED <<platform, samples>>
    /\ UNCHANGED notService

\* The request the 'release' listener made is answered.
ReacquireAnswer(granted) ==
    /\ browser.wakeLockRequests > 0
    /\ granted => FreeLocks(browser) # {}
    /\ \E br \in {[browser EXCEPT !.wakeLockRequests = @ - 1]} :
       \E got \in {IF granted THEN GrantLock(service, br, FALSE)
                   ELSE [service |-> service, browser |-> br]} :
          /\ service' = got.service
          /\ browser' = got.browser
    /\ UNCHANGED <<platform, startCalls, stopCalls, samples>>
    /\ UNCHANGED notService

\* The platform revokes the held sentinel s.
Revoke(s) ==
    /\ browser.locks[s].state = "held"
    /\ browser' = ReleaseLock(service, browser, s)
    /\ UNCHANGED <<service, platform, startCalls, stopCalls, samples>>
    /\ UNCHANGED notService

\* --------------------------------------------------- the location watch

AfterWrite_PushUnguarded(stage, ok) ==
    IF ok THEN (IF stage = "set" THEN "push" ELSE "written")
    ELSE IF stage = "set" THEN "queued" ELSE "dropped"

\* updateFirebaseLocation: where a sample goes when the remote write it
\* waits for (set, then push) is answered; both writes are inside the try
\* whose catch calls queueAction.
AfterWrite(stage, ok) ==
    IF ok THEN (IF stage = "set" THEN "push" ELSE "written")
    ELSE "queued"

\* The watch w delivers a position sample: handleLocationUpdate runs up to
\* the set() of updateFirebaseLocation.
WatchPosition(w) ==
    /\ w \in browser.watches
    /\ Len(samples) < MaxSamples
    /\ samples' = Append(samples, [watch |-> w, stage |-> "set", action |-> 0])
    /\ UNCHANGED <<service, platform, browser, startCalls, stopCalls>>
    /\ UNCHANGED notService

\* The remote write the sample k waits for is answered.
WriteAnswer(k, ok) ==
    /\ k \in DOMAIN samples
    /\ samples[k].stage \in {"set", "push"}
    /\ \E stage \in {AfterWrite(samples[k].stage, ok)} :
          /\ samples' = [samples EXCEPT ![k].stage = stage,
                            ![k].action = IF stage = "queued" THEN nextId ELSE 0]
          /\ IF stage = "queued"
             THEN QueueActionCall("location", LocationData(Undefined))
             ELSE UNCHANGED omVars
    /\ UNCHANGED <<service, platform, browser, startCalls, stopCalls>>
    /\ UNCHANGED <<ctVars, gmVars, rsVars>>

\* The watch w reports an error: the error callback sets the restart timer.
\* scheduled keeps, for each timer that is set, in the order in which they
\* fire, the number of stop() calls made before it was set.
WatchError(w) ==
    /\ w \in browser.watches
    /\ browser.errors < MaxErrors
    /\ browser' = [browser EXCEPT !.errors = @ + 1, !.restartTimers = @ + 1,
                                  !.scheduled = Append(@, stopCalls)]
    /\ UNCHANGED <<service, platform, startCalls, stopCalls, samples>>
    /\ UNCHANGED notService

\* A restart timer of the error callback fires.
RestartTimer ==
    /\ browser.restartTimers > 0
    /\ \E br \in {[browser EXCEPT !.restartTimers = @ - 1,
                                    !.scheduled = Tail(@)]} :
       \E end \in {IF service.isRunning THEN StartLocationTracking(service, br)
                   ELSE [service |-> service, browser |-> br]} :
          /\ service' = end.service
          /\ browser' = end.browser
    /\ UNCHANGED <<platform, startCalls, stopCalls, samples>>
    /\ UNCHANGED notService

\* A devicemotion event: every listener of enableBackgroundGestures posts
\* GESTURE_DATA to the service worker when isRunning is set and there is a
\* worker.
DeviceMotion ==
    /\ browser.motionListeners > 0
    /\ browser.gestureData < MaxMotion
    /\ browser' = IF service.isRunning /\ service.serviceWorker
                  THEN [browser EXCEPT !.gestureData = @ + browser.motionListeners]
                  ELSE browser
    /\ UNCHANGED <<service, platform, startCalls, stopCalls, samples>>
    /\ UNCHANGED notService


\* ========================================================= the producers
\*
\* The senders of chat messages and SOS alerts: sendQuickMessage and
\* handleSendSOS of ChildTracker (src/unnamed/part_001) and sendQuickMessage
\* of the parent's dashboard (src/src/components/AuthForm.tsx), which differ
\* in the sender's name only.

InitProducers ==
    outbox = <<>>

\* Where a message or an alert goes when the push() the sender awaits is
\* answered: a rejection leaves the sender through its catch (handleSendSOS)
\* or as an unhandled rejection (sendQuickMessage).
AfterPush(ok) == IF ok THEN "written" ELSE "dropped"

\* sendQuickMessage(message) up to its push(), or to its end when the
\* manager reports offline.
SendQuickMessage ==
    /\ Len(outbox) < MaxItems
    /\ IF isOnline
       THEN /\ outbox' = Append(outbox, [kind |-> "message", stage |-> "push",
                                         action |-> 0])
            /\ UNCHANGED omVars
       ELSE /\ nextId <= MaxActions
            /\ outbox' = Append(outbox, [kind |-> "message", stage |-> "queued",
                                         action |-> nextId])
            /\ QueueThenStore("message", MessageData,
                              <<"messages", CachedMessage>>)
    /\ UNCHANGED <<bgVars, gmVars, rsVars>>

\* handleSendSOS() up to its getCurrentLocation().
HandleSendSOS ==
    /\ Len(outbox) < MaxItems
    /\ outbox' = Append(outbox, [kind |-> "sos", stage |-> "locating",
                                 action |-> 0])
    /\ UNCHANGED omVars
    /\ UNCHANGED <<bgVars, gmVars, rsVars>>

\* getCurrentLocation() answers the handleSendSOS the item k belongs to: on
\* a position the alert is built and pushed, or enqueued when the manager
\* reports offline; on an error the handler ends in its catch with no alert
\* built.
LocationAnswer(k, ok) ==
    /\ k \in DOMAIN outbox
    /\ outbox[k].stage = "locating"
    /\ IF ~ok
       THEN /\ outbox' = [outbox EXCEPT ![k].stage = "aborted"]
            /\ UNCHANGED omVars
       ELSE IF isOnline
       THEN /\ outbox' = [outbox EXCEPT ![k].stage = "push"]
            /\ UNCHANGED omVars
       ELSE /\ nextId <= MaxActions
            /\ outbox' = [outbox EXCEPT ![k].stage = "queued",
                                        ![k].action = nextId]
            /\ QueueActionCall("sos", SosData)
    /\ UNCHANGED <<bgVars, gmVars, rsVars>>

\* The push() the sender of the item k awaits is answered.
PushAnswer(k, ok) ==
    /\ k \in DOMAIN outbox
    /\ outbox[k].stage = "push"
    /\ outbox' = [outbox EXCEPT ![k].stage = AfterPush(ok)]
    /\ UNCHANGED omVars
    /\ UNCHANGED <<bgVars, gmVars, rsVars>>


\* ====================================================== shake detection
\*
\* GestureManager.handleDeviceMotion (src/src/utils/offlineManager.ts) on the
\* page and handleGestureData of the service worker (src/src/App.tsx), to
\* which the background service forwards every devicemotion event with the
\* page's Date.now().  Time is counted in units of 100 ms and passes between
\* the handlers: an event comes some time after the previous step, and a
\* timer fires when its delay is over.  The acceleration is one number, the
\* sum of the differences to the previous reading being its distance to it.

shakeThreshold == 15     \* GestureManager.shakeThreshold, gestureState.shakeThreshold
shakeWindow == 30        \* shakeWindow, 3000 ms
ShakeDebounce == 5       \* the 500 ms between counted shakes
Epoch == 100             \* Date.now() when the page is opened

\* Time between a devicemotion event and the previous step, in 100 ms.
Gaps == {1, 4, 5, 6}

\* Readings of the accelerometer.
Accelerations == {10, 30}

InitGestures ==
    /\ clock = Epoch
    /\ gesture = [shakeCount |-> 0, lastShakeTime |-> 0, lastAcceleration |-> 0,
                  shakeResetTimeout |-> 0]
    /\ worker = [shakeCount |-> 0, lastShakeTime |-> 0, lastAcceleration |-> 0,
                 timers |-> {}]
    /\ events = [n |-> 0, last |-> <<>>, log |-> <<>>,
                 panics |-> [manager |-> 0, worker |-> 0],
                 lastCounted |-> [manager |-> 0, worker |-> 0]]

Abs(n) == IF n < 0 THEN -n ELSE n

\* The deadlines of the timers that are set.
Deadlines ==
    worker.timers \cup
       (IF gesture.shakeResetTimeout # 0 THEN {gesture.shakeResetTimeout} ELSE {})

Counted_AtLeast(now, lastShakeTime) == now - lastShakeTime >= ShakeDebounce

\* currentTime - this.lastShakeTime > 500
Counted(now, lastShakeTime) == now - lastShakeTime > ShakeDebounce

Fired_PanicFrom3(shakeCount) ==
    IF shakeCount >= 5 THEN "sos" ELSE IF shakeCount >= 3 THEN "panic" ELSE "none"

\* What a counted shake that makes the count shakeCount fires.
Fired(shakeCount) ==
    IF shakeCount = 3 THEN "panic" ELSE IF shakeCount >= 4 THEN "sos" ELSE "none"

\* handleDeviceMotion for a valid reading acc at the time now, on the fields
\* gm: the fields after it and what it fired.
HandleDeviceMotion(gm, acc, now) ==
    IF Abs(acc - gm.lastAcceleration) > shakeThreshold
       /\ Counted(now, gm.lastShakeTime)
    THEN LET count == gm.shakeCount + 1 IN
         IF Fired(count) = "sos"
         THEN [fields |-> [gm EXCEPT !.shakeCount = 0, !.lastShakeTime = now,
                                     !.shakeResetTimeout = 0],
               fired |-> "sos", counted |-> TRUE]
         ELSE [fields |-> [gm EXCEPT !.shakeCount = count, !.lastShakeTime = now,
                                     !.shakeResetTimeout = now + shakeWindow,
                                     !.lastAcceleration = acc],
               fired |-> Fired(count), counted |-> TRUE]
    ELSE [fields |-> [gm EXCEPT !.lastAcceleration = acc],
          fired |-> "none", counted |-> FALSE]

\* handleGestureData of the service worker for the reading acc stamped now,
\* on gestureState gs.
HandleGestureData(gs, acc, now) ==
    IF Abs(acc - gs.lastAcceleration) > shakeThreshold
       /\ Counted(now, gs.lastShakeTime)
    THEN LET count == gs.shakeCount + 1 IN
         IF Fired(count) = "sos"
         THEN [fields |-> [gs EXCEPT !.shakeCount = 0, !.lastShakeTime = 0],
               fired |-> "sos", counted |-> TRUE]
         ELSE [fields |-> [gs EXCEPT !.shakeCount = count, !.lastShakeTime = now,
                                     !.timers = @ \cup {now + shakeWindow},
                                     !.lastAcceleration = acc],
               fired |-> Fired(count), counted |-> TRUE]
    ELSE [fields |-> [gs EXCEPT !.lastAcceleration = acc],
          fired |-> "none", counted |-> FALSE]

\* The times of the events of the shake scenario, from the first one.
ScenarioTimes == <<0, 6, 12, 18, 22, 23>>

\* What one counter did with an event, for the log.
Entry(before, after, acc) ==
    [above |-> Abs(acc - before.lastAcceleration) > shakeThreshold,
     counted |-> after.counted, fired |-> after.fired,
     shakeCount |-> after.fields.shakeCount]

\* The panic events a counter has fired since its shakeCount was last 0.
Panics(before, fired, shakeCount) ==
    IF shakeCount = 0 THEN 0
    ELSE IF fired = "panic" THEN before + 1 ELSE before

\* A devicemotion event with the reading acc, dt after the previous step:
\* the manager's listener handles it, and so does the service worker.  The
\* log keeps the events for as long as they come at the scenario's times,
\* and lastCounted the time of the last shake each counter has counted.
DeviceMotionEvent(dt, acc) ==
    /\ events.n < MaxEvents
    /\ \A t \in Deadlines : clock + dt <= t
    /\ clock' = clock + dt
    /\ \E m \in {HandleDeviceMotion(gesture, acc, clock + dt)},
          w \in {HandleGestureData(worker, acc, clock + dt)} :
       \E entry \in {[t |-> clock + dt,
                      manager |-> Entry(gesture, m, acc),
                      worker |-> Entry(worker, w, acc)]} :
          /\ gesture' = m.fields
          /\ worker' = w.fields
          /\ events' =
               [n |-> events.n + 1,
                last |-> entry,
                log |-> IF /\ Len(events.log) = events.n
                           /\ events.n < Len(ScenarioTimes)
                           /\ \/ events.n = 0
                              \/ clock + dt - events.log[1].t
                                   = ScenarioTimes[events.n + 1]
                        THEN Append(events.log, entry) ELSE <<>>,
                panics |-> [manager |-> Panics(events.panics.manager, m.fired,
                                               m.fields.shakeCount),
                            worker |-> Panics(events.panics.worker, w.fired,
                                              w.fields.shakeCount)],
                lastCounted |->
                   [manager |-> IF m.counted THEN clock + dt
                                ELSE events.lastCounted.manager,
                    worker |-> IF w.counted THEN clock + dt
                               ELSE events.lastCounted.worker]]
    /\ UNCHANGED omVars
    /\ UNCHANGED <<bgVars, ctVars, rsVars>>

\* The manager's shakeResetTimeout fires: resetShakeCount().
ShakeResetTimeout ==
    /\ gesture.shakeResetTimeout # 0
    /\ \A t \in Deadlines : gesture.shakeResetTimeout <= t
    /\ clock' = IF clock < gesture.shakeResetTimeout
                THEN gesture.shakeResetTimeout ELSE clock
    /\ gesture' = [gesture EXCEPT !.shakeCount = 0, !.shakeResetTimeout = 0]
    /\ events' = [events EXCEPT !.panics.manager = 0]
    /\ UNCHANGED worker
    /\ UNCHANGED omVars
    /\ UNCHANGED <<bgVars, ctVars, rsVars>>

\* A timer of the service worker fires, at its deadline or, with late, some
\* milliseconds after it: resetGestureState() if the last counted shake is
\* more than shakeWindow old.
WorkerTimeout(late) ==
    \E t \in worker.timers :
       /\ \A u \in Deadlines : t <= u
       /\ \E now \in {IF clock < t THEN t ELSE clock} :
             /\ clock' = now
             /\ IF \/ now - worker.lastShakeTime > shakeWindow
                   \/ late /\ now - worker.lastShakeTime = shakeWindow
                THEN /\ worker' = [worker EXCEPT !.timers = @ \ {t},
                                       !.shakeCount = 0, !.lastShakeTime = 0]
                     /\ events' = [events EXCEPT !.panics.worker = 0]
                ELSE /\ worker' = [worker EXCEPT !.timers = @ \ {t}]
                     /\ UNCHANGED events
       /\ UNCHANGED gesture
       /\ UNCHANGED omVars
       /\ UNCHANGED <<bgVars, ctVars, rsVars>>


\* ===================================================== the remote store
\*
\* The node children/{childCode} of the realtime database as the writes of
\* the application change it: set() at a path replaces everything stored at
\* and below that path, push() adds a child under a path.  A location
\* dispatch, of syncAction (case 'location') as of updateFirebaseLocation,
\* is a set() at children/{childCode} followed, once it is acknowledged, by
\* a push() under children/{childCode}/locationHistory.  The parent's page
\* sets children/{childCode}/safeZone and children/{childCode}/ping.

\* children/{childCode} with nothing stored.
EmptyChild ==
    [data |-> FALSE, locationHistory |-> <<>>, safeZone |-> FALSE,
     ping |-> FALSE]

InitRemote ==
    remote = [child |-> EmptyChild,
              dispatch |-> [stage |-> "none", sample |-> 0],
              appended |-> <<>>,
              parent |-> {}]

\* set(ref(database, `children/${childCode}`), data): the node is replaced
\* by data, which has no locationHistory, safeZone or ping.
RemoteSet(child) == [EmptyChild EXCEPT !.data = TRUE]

\* set() at the sub-path key of children/{childCode}.
RemoteSetAt(child, key) == [child EXCEPT ![key] = TRUE]

\* push(ref(database, `children/${childCode}/locationHistory`), sample)
RemotePush(child, sample) ==
    [child EXCEPT !.locationHistory = Append(@, sample)]

\* A location dispatch begins: its set() is issued.
LocationDispatch ==
    /\ remote.dispatch.stage = "none"
    /\ remote.dispatch.sample < MaxWrites
    /\ remote' = [remote EXCEPT !.dispatch =
                      [stage |-> "set", sample |-> remote.dispatch.sample + 1]]
    /\ UNCHANGED <<omVars, bgVars, ctVars, gmVars>>

\* The set() of the dispatch is answered; acknowledged, the push() is issued.
SetAnswer(ok) ==
    /\ remote.dispatch.stage = "set"
    /\ remote' = IF ok
                 THEN [remote EXCEPT !.child = RemoteSet(remote.child),
                                     !.dispatch.stage = "push"]
                 ELSE [remote EXCEPT !.dispatch.stage = "none"]
    /\ UNCHANGED <<omVars, bgVars, ctVars, gmVars>>

\* The push() of the dispatch is answered.
HistoryAnswer(ok) ==
    /\ remote.dispatch.stage = "push"
    /\ remote' = IF ok
                 THEN [remote EXCEPT
                          !.child = RemotePush(remote.child,
                                               remote.dispatch.sample),
                          !.appended = Append(@, remote.dispatch.sample),
                          !.dispatch.stage = "none"]
                 ELSE [remote EXCEPT !.dispatch.stage = "none"]
    /\ UNCHANGED <<omVars, bgVars, ctVars, gmVars>>

\* The parent's page stores a safe zone or a ping under the child.
ParentSet(key) ==
    /\ key \notin remote.parent
    /\ remote' = [remote EXCEPT !.child = RemoteSetAt(remote.child, key),
                                !.parent = @ \cup {key}]
    /\ UNCHANGED <<omVars, bgVars, ctVars, gmVars>>

\* ------------------------------------------------------------ specifications

\* The platform of the page when the background service is not looked at.
DefaultPlatform == [geolocation |-> TRUE, notificationThrows |-> FALSE]

Init ==
    /\ InitManager
    /\ InitService
    /\ platform = DefaultPlatform
    /\ InitProducers
    /\ InitGestures
    /\ InitRemote

Next ==
    \/ OnlineEvent
    \/ OfflineEvent
    \/ VisibilityChange
    \/ PeriodicTick
    \/ \E in \in ProducerInputs : QueueAction(in[1], in[2])
    \/ \E d \in DrainIds : DispatchOk(d)
    \/ \E d \in DrainIds : DispatchFail(d)
    \/ ClearOfflineData

\* One page load.
Spec == Init /\ [][Next]_vars

NextRestart == Next \/ Restart

\* Page loads separated by reloads.
SpecRestart == Init /\ [][NextRestart]_vars

InitBackground ==
    /\ InitManager
    /\ InitService
    /\ platform \in Platforms
    /\ InitProducers
    /\ InitGestures
    /\ InitRemote

NextBackground ==
    \/ \E childCode \in BOOLEAN : StartCall(childCode)
    \/ \E n \in 1..MaxStarts, granted \in BOOLEAN : LockAnswer(n, granted)
    \/ \E n \in 1..MaxStarts, outcome \in {"active", "waiting", "failed"} :
          SwAnswer(n, outcome)
    \/ \E rejects \in BOOLEAN : StopCall(rejects)
    \/ \E granted \in BOOLEAN : ReacquireAnswer(granted)
    \/ \E s \in LockIds : Revoke(s)
    \/ \E w \in 1..(2 * MaxStarts + MaxErrors) : WatchPosition(w)
    \/ \E k \in 1..MaxSamples, ok \in BOOLEAN : WriteAnswer(k, ok)
    \/ \E w \in 1..(2 * MaxStarts + MaxErrors) : WatchError(w)
    \/ RestartTimer
    \/ DeviceMotion
    \/ \E d \in DrainIds : DispatchOk(d)
    \/ \E d \in DrainIds : DispatchFail(d)

\* The background service, its platform, and the drains of what it enqueues.
SpecBackground == InitBackground /\ [][NextBackground]_vars

NextProducers ==
    \/ SendQuickMessage
    \/ HandleSendSOS
    \/ \E k \in 1..MaxItems, ok \in BOOLEAN : LocationAnswer(k, ok)
    \/ \E k \in 1..MaxItems, ok \in BOOLEAN : PushAnswer(k, ok)
    \/ OnlineEvent
    \/ OfflineEvent
    \/ \E d \in DrainIds : DispatchOk(d)
    \/ \E d \in DrainIds : DispatchFail(d)

\* The senders, the connectivity monitor and the drains of what they enqueue.
SpecProducers == Init /\ [][NextProducers]_vars

NextGestures ==
    \/ \E dt \in Gaps, acc \in Accelerations : DeviceMotionEvent(dt, acc)
    \/ ShakeResetTimeout
    \/ \E late \in BOOLEAN : WorkerTimeout(late)

\* The two shake counters fed with the same devicemotion events.
SpecGestures == Init /\ [][NextGestures]_vars

NextCache == \E type \in Categories : StoreOfflineDataCall(type)

\* The cache of offline data, filled by calls of storeOfflineData.
SpecCache == Init /\ [][NextCache]_vars

NextLogout == NextProducers \/ ClearOfflineData

\* The senders and the drains, with a reset of the manager at any time.
SpecLogout == Init /\ [][NextLogout]_vars

NextStatus == NextLogout \/ GetSyncStatusCall

\* The senders, the drains and the reset, with readers of the sync status.
SpecStatus == Init /\ [][NextStatus]_vars

\* The remote store answers the write some drain waits for.
Answer == \E d \in DrainIds : DispatchOk(d) \/ DispatchFail(d)

\* One page load in which the interval timer of startPeriodicSync keeps
\* firing, while the remote store may leave a write unanswered.
SpecTicking == Spec /\ WF_vars(PeriodicTick)

\* The actions enqueued where the drains are followed to their end: one
\* type with two remote writes and one with a single write.
AnsweredInputs ==
    { <<"location", LocationData(Undefined)>>, <<"message", MessageData>> }

NextAnswered ==
    \/ OnlineEvent
    \/ OfflineEvent
    \/ VisibilityChange
    \/ PeriodicTick
    \/ \E in \in AnsweredInputs : QueueAction(in[1], in[2])
    \/ \E d \in DrainIds : DispatchOk(d)
    \/ \E d \in DrainIds : DispatchFail(d)
    \/ ClearOfflineData

\* One page load in which the interval timer keeps firing and the remote
\* store answers every write.
SpecAnswered ==
    Init /\ [][NextAnswered]_vars /\ WF_vars(PeriodicTick) /\ WF_vars(Answer)

NextRemote ==
    \/ LocationDispatch
    \/ \E ok \in BOOLEAN : SetAnswer(ok)
    \/ \E ok \in BOOLEAN : HistoryAnswer(ok)
    \/ \E key \in {"safeZone", "ping"} : ParentSet(key)

\* The child's node in the remote store under location dispatches and the
\* parent's writes.
SpecRemote == Init /\ [][NextRemote]_vars

NextLoad ==
    \/ NextAnswered
    \/ Restart
    \/ \E text \in ForeignBlobs : ForeignWrite(text)

\* Page loads separated by reloads, with a cache text in localStorage that
\* may come from elsewhere.
SpecLoad == Init /\ [][NextLoad]_vars

\* -------------------------------------------------------------- properties

InFlight == {d \in DrainIds : drains[d].active}

\* A step that calls syncWhenOnline: one of the four triggers.
CallsSync ==
    \/ OnlineEvent
    \/ VisibilityChange
    \/ PeriodicTick
    \/ \E in \in ProducerInputs : QueueAction(in[1], in[2])

\* C1: at most one drain is in flight at any time, syncInProgress says
\* whether one is, and a call of syncWhenOnline made by any trigger while a
\* drain is in flight starts no drain and dispatches nothing.
C1_SingleFlight ==
    /\ [](Cardinality(InFlight) <= 1 /\ (syncInProgress <=> InFlight # {}))
    /\ [][(syncInProgress /\ CallsSync) =>
             UNCHANGED <<syncInProgress, drains, attempts, acked>>]_vars

\* A drain is in flight, the manager is online and the queue holds an action
\* that is not in the snapshot: queueAction or the online event has called
\* syncWhenOnline during this drain.
C1_Witness ==
    /\ syncInProgress
    /\ isOnline
    /\ \E d \in InFlight : Range(syncQueue) \ Range(drains[d].snap) # {}

\* The last remote write of the action has been acknowledged: syncAction
\* has returned true for it.
Succeeded(id) == acked[<<id, NumWrites(objs[id].type)>>] >= 1

\* C2: an action no dispatch of which has failed is dispatched at most once,
\* whatever calls of syncWhenOnline arrive while a drain is in flight: each
\* of its remote writes is acknowledged at most once, and when the batch
\* removal takes it out it has been dispatched exactly once and each of its
\* writes has been acknowledged exactly once.
C2_ExactlyOneDispatch ==
    \A id \in Ids : failures[id] = 0 =>
       /\ attempts[id] <= 1
       /\ \A w \in {1, 2} : acked[<<id, w>>] <= 1
       /\ id \in removed =>
             /\ attempts[id] = 1
             /\ \A w \in 1..NumWrites(objs[id].type) : acked[<<id, w>>] = 1

\* A drain has just removed two actions that never failed, and the queue
\* holds an action that came in while that drain was in flight and the
\* manager was online: syncWhenOnline was called during the drain.
C2_Witness ==
    /\ Cardinality(removed) = 2
    /\ \A id \in removed : failures[id] = 0 /\ attempts[id] = 1
    /\ syncQueue # <<>>
    /\ isOnline

\* C3: an action is dispatched at most maxRetries times; the batch removal
\* takes an action that never succeeded out of the queue only when exactly
\* maxRetries of its dispatches have failed (not after 1 or 2), and no
\* action with maxRetries failed dispatches is left in the queue once the
\* drain that saw the last failure has finished.
C3_RetryBudget ==
    \A id \in Ids :
       /\ attempts[id] <= maxRetries
       /\ failures[id] <= maxRetries
       /\ (id \in removed /\ ~Succeeded(id)) => failures[id] = maxRetries
       /\ (id \in Range(syncQueue) /\ ~syncInProgress) => failures[id] < maxRetries
       /\ (id \in Range(syncQueue) /\ failures[id] = maxRetries) =>
             \E d \in InFlight : id \in Range(drains[d].marked)

\* An action all of whose dispatches failed has just been removed, after
\* exactly three dispatches.
C3_Witness ==
    \E id \in removed :
       /\ failures[id] = 3
       /\ attempts[id] = 3
       /\ \A w \in {1, 2} : acked[<<id, w>>] = 0

\* The ids of the persisted queue, in order.
PersistedQueue == [k \in 1..Len(ls.syncQueue) |-> ls.syncQueue[k].id]

\* The step is a page reload.
IsRestart == restarts' # restarts

Keys == UNION {DOMAIN in[2] : in \in ProducerInputs}

\* b is the action a as far as reading its fields and the properties of its
\* payload can tell, retryCount aside.
SameAction(a, b) ==
    /\ b.id = a.id
    /\ b.type = a.type
    /\ b.timestamp = a.timestamp
    /\ \A k \in Keys : Get(b.data, k) = Get(a.data, k)

Current(d) == drains[d].snap[drains[d].i]

\* C6: ids grow in enqueue order.  The queue and every snapshot are in
\* enqueue order whatever the types; of a drain's snapshot exactly one
\* action is being dispatched, the outcome of every earlier one is known
\* (it succeeded, or its last dispatch failed) and no later one has been
\* dispatched by this drain.
C6_FifoDispatch ==
    /\ \A j, k \in 1..Len(syncQueue) : j < k => syncQueue[j] < syncQueue[k]
    /\ \A d \in InFlight :
          LET dr == drains[d] IN
          /\ \A j, k \in 1..Len(dr.snap) : j < k => dr.snap[j] < dr.snap[k]
          /\ \A k \in 1..Len(dr.snap) :
                LET id == dr.snap[k] IN
                /\ k < dr.i => (Succeeded(id) \/
                                (failures[id] >= 1 /\ attempts[id] = failures[id]))
                /\ k = dr.i => (~Succeeded(id) /\ attempts[id] = failures[id] + 1)
                /\ k > dr.i => (~Succeeded(id) /\ attempts[id] = failures[id])

\* A drain of three actions of three types waits for the answer to the
\* last one.
C6_Witness ==
    \E d \in InFlight :
       /\ Len(drains[d].snap) = 3
       /\ drains[d].i = 3
       /\ Cardinality({objs[id].type : id \in Range(drains[d].snap)}) = 3

\* The step is the transition of the connectivity monitor to online.
GoesOnline == ~isOnline /\ isOnline'

\* The step starts a drain.
StartsDrain == \E d \in DrainIds : ~drains[d].active /\ drains'[d].active

\* The step is the one in which the drain in slot d runs to its end.
Finishes(d) == drains[d].active /\ ~drains'[d].active /\ ~IsRestart

\* C7 as stated: with 3 queued actions, the transition to online starts a
\* drain.
C7_OnlineStartsDrain ==
    [][(GoesOnline /\ Len(syncQueue) = 3) => StartsDrain]_vars

\* C7, amended: the transition to online with a non-empty queue starts a
\* drain of the whole queue unless a drain is already in flight; and when a
\* drain none of whose actions ever failed finishes, and the queue is still
\* its snapshot (nothing came in, nothing was cleared), the queue is empty
\* afterwards and getSyncStatus reports 0 queued actions.
C7_OnlineDrainsQueue ==
    /\ [][(GoesOnline /\ syncQueue # <<>> /\ ~syncInProgress) =>
            (syncInProgress' /\ \E d \in DrainIds :
                ~drains[d].active /\ drains'[d].active
                /\ drains'[d].snap = syncQueue)]_vars
    /\ [][\A d \in DrainIds :
            (/\ Finishes(d)
             /\ syncQueue = drains[d].snap
             /\ \A id \in Range(drains[d].snap) : failures'[id] = 0)
            => (/\ syncQueue' = <<>>
                /\ GetSyncStatus'.queuedActions = 0
                /\ removed' = Range(drains[d].snap))]_vars

\* A drain of three actions that never failed has just finished and has
\* left the queue empty, the manager being online.  The three were queued
\* and never dispatched when that drain started, so they were enqueued
\* offline and the drain is the one the transition to online started.
C7_Witness ==
    /\ Cardinality(removed) = 3
    /\ \A id \in removed : failures[id] = 0 /\ Succeeded(id)
    /\ syncQueue = <<>>
    /\ GetSyncStatus.queuedActions = 0
    /\ isOnline /\ ~syncInProgress

\* C8 as stated: the retryCount of a queued action never decreases, and,
\* clearOfflineData aside, an action leaves the queue only when its dispatch
\* has succeeded or its retryCount has reached maxRetries, and never comes
\* back.
C8_RetryCountMonotonic ==
    [][/\ \A id \in Range(syncQueue) \cap Range(syncQueue') :
             objs'[id].retryCount >= objs[id].retryCount
       /\ \A id \in Range(syncQueue) \ Range(syncQueue') :
             \/ ClearOfflineData
             \/ Succeeded(id)'
             \/ objs'[id].retryCount >= maxRetries
       /\ \A id \in Range(syncQueue') \ Range(syncQueue) : id = nextId]_vars

\* The ids of the persisted queue.
PersistedIds == Range(PersistedQueue)

C10_SnapshotDrain ==
    /\ [](\A d \in InFlight : \A id \in Range(syncQueue) \ Range(drains[d].snap) :
            attempts[id] = 0 /\ objs[id].retryCount = 0)
    /\ [][\A d \in DrainIds : Finishes(d) =>
            /\ FilterSeq(syncQueue, Ids \ Range(drains[d].snap))
                 = FilterSeq(syncQueue', Ids \ Range(drains[d].snap))
            /\ \A id \in Range(syncQueue) \ Range(drains[d].snap) :
                  /\ id \in Range(syncQueue')
                  /\ objs'[id].retryCount = 0
                  /\ attempts'[id] = 0]_vars

\* A drain has just removed an action, and the queue holds an action that
\* came in during the drain and has not been dispatched.
C10_Witness ==
    /\ removed # {}
    /\ ~syncInProgress
    /\ syncQueue # <<>>
    /\ \A id \in Range(syncQueue) : attempts[id] = 0 /\ objs[id].retryCount = 0

\* The step is a call of queueAction.
IsEnqueue == nextId' # nextId

\* C11: a call of queueAction appends one action, with retryCount 0, at the
\* tail of the queue and returns its id; when the manager is online a drain
\* is in flight afterwards (begun by this call over the whole queue unless
\* one was in flight already), and the call returns with no remote write
\* answered; when it is offline the call starts nothing.
C11_Enqueue ==
    [][IsEnqueue =>
         /\ syncQueue' = Append(syncQueue, nextId)
         /\ objs'[nextId].retryCount = 0
         /\ returned' = objs'[nextId].id
         /\ \A id \in Range(syncQueue') :
               /\ \A w \in {1, 2} : acked'[<<id, w>>] = acked[<<id, w>>]
               /\ failures'[id] = failures[id]
         /\ (isOnline /\ ~syncInProgress) =>
               /\ syncInProgress'
               /\ \E d \in DrainIds :
                     /\ ~drains[d].active /\ drains'[d].active
                     /\ drains'[d].snap = syncQueue'
                     /\ drains'[d].i = 1 /\ drains'[d].w = 1
                     /\ attempts'[syncQueue'[1]] = attempts[syncQueue'[1]] + 1
         /\ (~isOnline \/ syncInProgress) =>
               /\ UNCHANGED <<syncInProgress, drains>>
               /\ \A id \in Range(syncQueue') : attempts'[id] = attempts[id]]_vars

\* queueAction has just returned the id of the action at the tail of the
\* queue, online, and the drain it began waits for its first answer.
C11_Witness ==
    /\ returned >= 2
    /\ syncQueue # <<>>
    /\ syncQueue[Len(syncQueue)] = returned
    /\ objs[returned].retryCount = 0
    /\ isOnline
    /\ \E d \in InFlight :
          /\ drains[d].snap = syncQueue
          /\ drains[d].i = 1 /\ drains[d].w = 1
          /\ attempts[syncQueue[1]] = 1
          /\ \A x \in Writes : acked[x] = 0

\* The sample k is being processed: a remote write of it is awaited.
Pending(k) == samples[k].stage \in {"set", "push"}

\* C12: a position sample delivered to the watch callback is never dropped.
\* While it is processed it waits for set() or push(); its processing ends
\* either with both writes acknowledged or, on the failure of one of them,
\* with a location action carrying it at the tail of the queue, persisted.
C12_SampleNotDropped ==
    /\ [](\A k \in DOMAIN samples :
            /\ samples[k].stage \in {"set", "push", "written", "queued"}
            /\ samples[k].stage = "queued" <=> samples[k].action # 0)
    /\ [][\A k \in DOMAIN samples :
            (Pending(k) /\ ~Pending(k)') =>
               \/ samples[k].stage = "push" /\ samples'[k].stage = "written"
               \/ /\ samples'[k].stage = "queued"
                  /\ syncQueue' = Append(syncQueue, samples'[k].action)
                  /\ objs'[samples'[k].action].type = "location"
                  /\ objs'[samples'[k].action].data = LocationData(Undefined)
                  /\ samples'[k].action \in PersistedIds']_vars

\* A remote write of a sample has failed, and the sample is in the queue and
\* in the persisted queue as a location action.
C12_Witness ==
    \E k \in DOMAIN samples :
       /\ samples[k].stage = "queued"
       /\ samples[k].action \in Range(syncQueue)
       /\ objs[samples[k].action].type = "location"
       /\ samples[k].action \in PersistedIds

\* C13 as stated: every chat message and every SOS alert a sender has built
\* is, once the sender is done with it, either written to the remote store
\* or in the action queue: the sender enqueues it when the manager reports
\* offline and when the direct push fails.
C13_ProducedIsDelivered ==
    /\ [](\A k \in DOMAIN outbox :
            outbox[k].stage \in {"locating", "aborted", "push", "written",
                                 "queued"})
    /\ [][\A k \in DOMAIN outbox :
            (outbox[k].stage = "push" /\ outbox'[k].stage # "push") =>
               \/ outbox'[k].stage = "written"
               \/ /\ outbox'[k].stage = "queued"
                  /\ syncQueue' = Append(syncQueue, outbox'[k].action)]_vars

\* start() has returned true, every start() has returned, stop() has been
\* called and the service is not running: the stop() came after the start().
Stopped ==
    /\ stopCalls >= 1
    /\ ~service.isRunning
    /\ \E n \in DOMAIN startCalls : startCalls[n].pc = "true"
    /\ \A n \in DOMAIN startCalls : startCalls[n].pc \in {"true", "false"}

\* C14 as stated: after start() and then stop(), nothing that still fires
\* (the rest of a sample's processing, a restart timer, a 'release' event or
\* its re-acquisition, a motion event) has an effect: the fields of the
\* service stay as they are, nothing is requested from the platform, no
\* remote write is issued, nothing is posted and nothing is enqueued.
C14_LateCallbackHasNoEffect ==
    [][(Stopped /\ Len(startCalls') = Len(startCalls)) =>
         /\ service' = service
         /\ browser'.watches \subseteq browser.watches
         /\ browser'.intervals \subseteq browser.intervals
         /\ browser'.wakeLockRequests <= browser.wakeLockRequests
         /\ \A s \in LockIds : browser'.locks[s].state = "held" =>
                                  browser.locks[s].state = "held"
         /\ browser'.gestureData = browser.gestureData
         /\ nextId' = nextId
         /\ Len(samples') = Len(samples)
         /\ \A k \in DOMAIN samples :
               samples'[k].stage \in {samples[k].stage, "written"}]_vars

\* The step is a call of stop() on a running service.
StopsRunning == stopCalls' # stopCalls /\ service.isRunning

\* No wake lock sentinel is held for the page and none is requested.
NoLockHeld ==
    /\ \A s \in LockIds : browser.locks[s].state # "held"
    /\ browser.wakeLockRequests = 0

\* C15 as stated: stop() on a running service leaves it stopped and holding
\* nothing, and it holds nothing for as long as it stays stopped: no location
\* watch, no devicemotion listener, no heartbeat timer, and no wake lock,
\* not even one acquired again in reaction to the release stop() performed.
C15_StopReleasesAll ==
    /\ [][StopsRunning => ~service'.isRunning]_vars
    /\ [](Stopped =>
            /\ browser.watches = {}
            /\ browser.intervals = {}
            /\ browser.motionListeners = 0
            /\ NoLockHeld
            /\ service.wakeLock = 0)

\* C16 as stated: whatever fails in stop(), the other release steps are
\* still performed and the service ends stopped: the watch and the timer
\* are cleared, the wake lock is released and forgotten, and isRunning is
\* false.
C16_StopIsBestEffort ==
    [][StopsRunning =>
         /\ service'.locationWatchId = 0
         /\ service'.heartbeatInterval = 0
         /\ service.wakeLock # 0 =>
               browser'.locks[service.wakeLock].state = "released"
         /\ ~service'.isRunning]_vars

\* The call n of start() returns in the step.
Returns(n) ==
    /\ n \in DOMAIN startCalls'
    /\ startCalls'[n].pc \in {"true", "false"}
    /\ n \in DOMAIN startCalls => startCalls[n].pc \in {"lock", "sw"}

\* C17 as stated: start() returns true or false, never anything else; it
\* returns true exactly when the service is running at its return, and false
\* exactly when its setup failed, the service then being not running.
C17_StartResult ==
    /\ [](\A n \in DOMAIN startCalls :
            startCalls[n].pc \in {"lock", "sw", "true", "false"})
    /\ [][\A n \in 1..MaxStarts : Returns(n) =>
            /\ startCalls'[n].pc = "true" <=> service'.isRunning
            /\ startCalls'[n].pc = "false" <=>
                  /\ n \in DOMAIN startCalls
                  /\ \/ startCalls[n].childCode /\ ~platform.geolocation
                     \/ platform.notificationThrows]_vars

\* The platform revokes, in the step, the sentinel s the running service
\* holds in its wakeLock field.
Revoked(s) ==
    /\ service.isRunning
    /\ service.wakeLock = s
    /\ browser.locks[s].state = "held"
    /\ browser'.locks[s].state = "released"
    /\ stopCalls' = stopCalls

\* C18 as stated: every revocation of the wake lock the running service
\* holds, also of a lock obtained by an earlier re-acquisition, is followed
\* by one request for a new lock; and the answer to such a request, granted
\* or not, leaves the service running.
C18_ReacquiresWakeLock ==
    /\ [][\A s \in LockIds : Revoked(s) =>
            browser'.wakeLockRequests = browser.wakeLockRequests + 1]_vars
    /\ [][browser'.wakeLockRequests < browser.wakeLockRequests =>
            service'.isRunning = service.isRunning]_vars

\* What a devicemotion event did to one counter: last is the counter's part
\* of the event's log entry, before and after its shakeCount around the step,
\* panics its panic events since its shakeCount was last 0.
CountsShakes(last, before, after, panics) ==
    /\ last.fired = "panic" <=> (last.counted /\ before = 2)
    /\ last.fired = "sos" <=> (last.counted /\ before = 3)
    /\ last.fired = "panic" => (after = 3 /\ panics = 1)
    /\ last.fired = "sos" => (after = 0 /\ panics = 0)
    /\ (last.counted /\ last.fired # "sos") => after = before + 1
    /\ ~last.counted => after = before

\* C19: in both counters a counted shake fires the panic event exactly when
\* it makes shakeCount 3, and the SOS event exactly when it would make it 4;
\* the SOS step leaves shakeCount 0 and fires no panic; every other counted
\* shake adds one, so the first one counted after an SOS makes the count 1.
\* Between steps shakeCount is at most 3, and a counter has fired panic once
\* since its shakeCount was last 0 exactly while the count is 3.
C19_PanicThenSos ==
    /\ [](/\ gesture.shakeCount \in 0..3
          /\ worker.shakeCount \in 0..3
          /\ events.panics.manager = (IF gesture.shakeCount = 3 THEN 1 ELSE 0)
          /\ events.panics.worker = (IF worker.shakeCount = 3 THEN 1 ELSE 0))
    /\ [][events'.n = events.n + 1 =>
            /\ CountsShakes(events'.last.manager, gesture.shakeCount,
                            gesture'.shakeCount, events'.panics.manager)
            /\ CountsShakes(events'.last.worker, worker.shakeCount,
                            worker'.shakeCount, events'.panics.worker)]_vars

\* Both counters have fired the SOS event with the fourth counted shake, and
\* the service worker has counted the next event: its count is 1.
C19_Witness ==
    /\ Len(events.log) = 5
    /\ events.n = 5
    /\ events.log[3].manager.fired = "panic"
    /\ events.log[4].manager.fired = "sos"
    /\ events.log[4].worker.fired = "sos"
    /\ events.log[5].worker.counted
    /\ worker.shakeCount = 1

\* The events of the shake scenario have all arrived, each above the
\* threshold for both counters.
ScenarioFed ==
    /\ Len(events.log) = Len(ScenarioTimes)
    /\ \A i \in 1..Len(ScenarioTimes) :
          events.log[i].manager.above /\ events.log[i].worker.above

\* What one counter did in the scenario as C20 states it: log is the
\* counter's entries.
AsStated(log) ==
    /\ \A i \in {1, 2, 4} : log[i].fired = "none"
    /\ log[3].fired = "panic"
    /\ log[5].fired = "sos" /\ log[5].shakeCount = 0
    /\ log[6].counted /\ log[6].shakeCount = 1

Played(log) ==
    /\ \A i \in 1..4 : log[i].counted
    /\ log[1].fired = "none" /\ log[1].shakeCount = 1
    /\ log[2].fired = "none" /\ log[2].shakeCount = 2
    /\ log[3].fired = "panic" /\ log[3].shakeCount = 3
    /\ log[4].fired = "sos" /\ log[4].shakeCount = 0
    /\ log[5].fired = "none" /\ log[6].fired = "none"
    /\ log[6].shakeCount <= 1

C21_DebounceAndWindow ==
    /\ [](/\ gesture.shakeCount > 0 =>
                clock - events.lastCounted.manager <= shakeWindow
          /\ worker.shakeCount > 0 =>
                clock - events.lastCounted.worker <= shakeWindow)
    /\ [][events'.n = events.n + 1 =>
            /\ events'.last.manager.above =>
                  (events'.last.manager.counted <=>
                      clock' - events.lastCounted.manager >= ShakeDebounce)
            /\ events'.last.worker.above =>
                  (events'.last.worker.counted <=>
                      clock' - events.lastCounted.worker >= ShakeDebounce)]_vars

\* C22: when 150 items have been stored into a category that was empty,
\* its list holds exactly 100 items, the 51st to the 150th in the order of
\* their insertion: the 50 oldest are gone.  The copy in localStorage holds
\* the same list.
C22_Store150Leaves100 ==
    \A type \in Categories : Stored(type) = 150 =>
        /\ Len(offlineData[type]) = 100
        /\ \A k \in 1..100 : offlineData[type][k].n = 50 + k
        /\ ls.offlineData[type] = offlineData[type]

\* 150 items have been stored into one category.
C22_Witness ==
    \E type \in Categories :
       /\ Stored(type) = 150
       /\ offlineData[type][1].n = 51

\* C23: after any calls of storeOfflineData every category list has at most
\* 100 items and is the end of the sequence of the payloads stored into it,
\* in their order and up to the one stored last; a call changes the list of
\* its category only.
C23_CacheIsCappedSuffix ==
    /\ [](\A type \in Categories :
            /\ Len(offlineData[type]) <= 100
            /\ \A k \in 1..Len(offlineData[type]) :
                  offlineData[type][k].n
                     = Stored(type) - Len(offlineData[type]) + k
            /\ Stored(type) > 0 => offlineData[type][1].n >= 1)
    /\ [][\A type \in Categories :
            \/ offlineData'[type] = offlineData[type]
            \/ /\ Stored(type)' = Stored(type) + 1
               /\ \A other \in Categories \ {type} :
                     offlineData'[other] = offlineData[other]]_vars

\* A list has been cut: it is full again and its first item is not the
\* first one stored, while another category holds an item too.
C23_Witness ==
    \E type \in Categories :
       /\ Len(offlineData[type]) = 100
       /\ offlineData[type][1].n = 51
       /\ \E other \in Categories \ {type} : Len(offlineData[other]) = 1

C25_StatusIsPureRead ==
    /\ [](/\ GetSyncStatus.isOnline = isOnline
          /\ GetSyncStatus.queuedActions = Len(syncQueue)
          /\ GetSyncStatus.syncInProgress <=> InFlight # {})
    /\ [][GetSyncStatusCall =>
            /\ UNCHANGED <<isOnline, syncQueue, objs, offlineData,
                           syncInProgress, drains, ls>>
            /\ status'.isOnline = isOnline'
            /\ status'.queuedActions = Len(syncQueue')
            /\ status'.syncInProgress <=> InFlight' # {}]_vars

\* getSyncStatus has just been called while a drain was in flight over a
\* queue that holds an action.
C25_Witness ==
    /\ status # <<>>
    /\ status = GetSyncStatus
    /\ status.syncInProgress
    /\ status.queuedActions >= 1
    /\ InFlight # {}

\* What the failure of the dispatch the drain in slot d waits for does: the
\* retryCount of the action goes up by one; an action whose retryCount has
\* reached maxRetries is marked for removal, and removed if the drain ends
\* here, while another one stays in the queue; and the drain starts the
\* dispatch of the next action of its snapshot or, after the last one, ends
\* with syncInProgress false.  Nothing else of the manager changes.
FailureIsAbsorbed(d) ==
    LET dr == drains[d]
        cur == dr.snap[dr.i]
        retries == objs[cur].retryCount + 1
    IN /\ cur \in DOMAIN objs' => objs'[cur].retryCount = retries
       /\ UNCHANGED <<isOnline, nextId, returned>>
       /\ IF dr.i < Len(dr.snap)
          THEN /\ drains'[d].active /\ syncInProgress'
               /\ drains'[d].snap = dr.snap /\ drains'[d].i = dr.i + 1
               /\ attempts'[dr.snap[dr.i + 1]] = attempts[dr.snap[dr.i + 1]] + 1
               /\ retries >= maxRetries <=> cur \in Range(drains'[d].marked)
               /\ syncQueue' = syncQueue
          ELSE /\ ~drains'[d].active /\ ~syncInProgress'
               /\ retries >= maxRetries => cur \notin Range(syncQueue')
               /\ (retries < maxRetries /\ cur \in Range(syncQueue)) =>
                     cur \in Range(syncQueue')

\* C26: a failed dispatch, of an action of any type, reaches no caller: the
\* sync engine turns it into one more retry or into the removal of the
\* action, goes on with the next action of the snapshot and ends the drain
\* with syncInProgress false; syncInProgress is true exactly while a drain
\* is in flight.
C26_FailureIsAbsorbed ==
    /\ [](syncInProgress <=> InFlight # {})
    /\ [][\A d \in DrainIds : DispatchFail(d) => FailureIsAbsorbed(d)]_vars

\* A drain has ended and removed an action all three dispatches of which
\* failed, while an action whose only dispatch failed stays queued.
C26_Witness ==
    /\ ~syncInProgress
    /\ \E id \in removed : failures[id] = maxRetries /\ ~Succeeded(id)
    /\ \E id \in Range(syncQueue) :
          failures[id] = 1 /\ objs[id].retryCount = 1 /\ attempts[id] = 1

\* C27 as stated: a drain in flight always comes to its end, also when the
\* remote store leaves a write unanswered: syncInProgress is false again
\* some time after it was set.
C27_DrainAlwaysFinishes == syncInProgress ~> ~syncInProgress

\* C28: with the timer firing and every write answered, an action that is in
\* the queue, enqueued during a drain or not, is out of the queue some time
\* later unless the manager goes offline.
C28_QueueDrains ==
    \A id \in Ids :
       (id \in Range(syncQueue)) ~> (id \notin Range(syncQueue) \/ ~isOnline)

\* An action other than the first one enqueued has been removed after three
\* failed dispatches, in three drains, with the manager online.
C28_Witness ==
    /\ isOnline
    /\ \E id \in removed :
          /\ failures[id] = maxRetries
          /\ id > 1
          /\ objs[id].retryCount = maxRetries

\* The step starts a remote write: the first write of an action, or the
\* second write of a location action.
StartsWrite ==
    \/ \E id \in Ids : attempts'[id] = attempts[id] + 1
    \/ \E d \in DrainIds :
          /\ drains[d].active /\ drains'[d].active
          /\ drains'[d].w > drains[d].w

\* C29 as stated: a remote write is started only when the connectivity flag
\* says online, also by a drain that was in flight when the manager went
\* offline.
C29_DispatchOnlyOnline == [][StartsWrite => isOnline']_vars

\* C30: a drain goes through its snapshot one action at a time, in order,
\* starting one dispatch for each, whether the dispatches before it failed or
\* not, and ends only after the last one; its batch removal takes out
\* actions of the snapshot only and leaves the others in the order they
\* were in, which is the order in which they were enqueued.
C30_FailureDoesNotBlock ==
    /\ [](\A j, k \in 1..Len(syncQueue) : j < k => syncQueue[j] < syncQueue[k])
    /\ [][\A d \in DrainIds :
            /\ (~drains[d].active /\ drains'[d].active) =>
                  /\ drains'[d].snap = syncQueue' /\ drains'[d].i = 1
                  /\ attempts'[Current(d)'] = attempts[Current(d)'] + 1
            /\ (drains[d].active /\ drains'[d].active) =>
                  /\ drains'[d].snap = drains[d].snap
                  /\ \/ drains'[d].i = drains[d].i
                     \/ /\ drains'[d].i = drains[d].i + 1
                        /\ attempts'[Current(d)'] = attempts[Current(d)'] + 1
            /\ DispatchFail(d) =>
                  IF drains[d].i < Len(drains[d].snap)
                  THEN drains'[d].active /\ drains'[d].i = drains[d].i + 1
                  ELSE ~drains'[d].active
            /\ Finishes(d) =>
                  /\ drains[d].i = Len(drains[d].snap)
                  /\ syncQueue' = FilterSeq(syncQueue, Range(syncQueue'))
                  /\ Range(syncQueue) \ Range(syncQueue')
                        \subseteq Range(drains[d].snap)
                  /\ removed' = Range(syncQueue) \ Range(syncQueue')]_vars

\* A drain over three actions has ended: the dispatch of the first failed,
\* that of the second succeeded and that of the third failed; the second
\* has been removed and the two others stay queued in their order.
C30_Witness ==
    /\ ~syncInProgress
    /\ Len(syncQueue) >= 2
    /\ failures[syncQueue[1]] = 1 /\ attempts[syncQueue[1]] = 1
    /\ failures[syncQueue[2]] = 1 /\ attempts[syncQueue[2]] = 1
    /\ \E id \in removed :
          /\ Succeeded(id)
          /\ id > syncQueue[1]
          /\ id < syncQueue[2]

\* C31 as stated: when the push() of a location dispatch is acknowledged,
\* locationHistory holds every sample appended by the acknowledged pushes so
\* far, the new one included, and the safe zone and the ping the parent has
\* stored under the child are still there.
C31_LocationWriteKeepsNode ==
    [][(remote.dispatch.stage = "push" /\ remote'.dispatch.stage = "none"
           /\ Len(remote'.appended) = Len(remote.appended) + 1) =>
         /\ Range(remote'.appended) \subseteq Range(remote'.child.locationHistory)
         /\ "safeZone" \in remote'.parent => remote'.child.safeZone
         /\ "ping" \in remote'.parent => remote'.child.ping]_vars

\* C32 as stated: after n calls of storeOfflineData for a category that was
\* empty, the list of the category holds the min(n, 100) payloads stored
\* last, in the order of the calls.
C32_SlidingWindow ==
    \A type \in Categories :
       LET n == Stored(type)
           kept == IF n < 100 THEN n ELSE 100
       IN /\ Len(offlineData[type]) = kept
          /\ \A k \in 1..Len(offlineData[type]) :
                offlineData[type][k].n = n - kept + k

\* C33 as stated: in every state where isRunning is set the interval timer
\* of startHeartbeat is active, and in every state where it is not set no
\* such timer is active.
C33_HeartbeatWhileRunning ==
    /\ service.isRunning => service.heartbeatInterval \in browser.intervals
    /\ ~service.isRunning => browser.intervals = {}

\* C34 as stated: when the restart timer of a watch error fires, a watch is
\* created exactly if isRunning is set, and never if stop() has been called
\* since the timer was set.
C34_RestartOnlyInItsRun ==
    [][RestartTimer =>
         /\ (browser'.watches # browser.watches) <=> service.isRunning
         /\ Head(browser.scheduled) < stopCalls =>
               browser'.watches = browser.watches]_vars

\* C35 as stated: in every state there is at most one active location
\* watch, one heartbeat timer, one devicemotion listener and one held wake
\* lock, and the watch, the timer and the lock are the ones the fields of
\* the service refer to.
C35_AtMostOneOfEach ==
    /\ browser.watches \subseteq {service.locationWatchId}
    /\ browser.intervals \subseteq {service.heartbeatInterval}
    /\ browser.motionListeners <= 1
    /\ {s \in LockIds : browser.locks[s].state = "held"}
          \subseteq {service.wakeLock}

\* C36 as stated: when stop() was called during the setup of the last
\* start() call and every start() call has returned, the service is not
\* running and has no location watch, no heartbeat timer and no wake lock.
C36_StopWinsOverStart ==
    (/\ startCalls # <<>>
     /\ startCalls[Len(startCalls)].stopped
     /\ \A n \in DOMAIN startCalls : startCalls[n].pc \in {"true", "false"})
    => /\ ~service.isRunning
       /\ browser.watches = {}
       /\ browser.intervals = {}
       /\ \A s \in LockIds : browser.locks[s].state # "held"

\* C37 as stated: when a start() call returns false, no watch, heartbeat
\* timer or devicemotion listener created by its setup is left, and the
\* wake lock its request was answered with is not held.
C37_FailedStartHoldsNothing ==
    [][\A n \in DOMAIN startCalls :
          (Returns(n) /\ startCalls'[n].pc = "false") =>
              /\ browser'.watches \subseteq browser.watches
              /\ browser'.intervals \subseteq browser.intervals
              /\ browser'.motionListeners <= browser.motionListeners
              /\ startCalls[n].lock # 0 =>
                    browser'.locks[startCalls[n].lock].state # "held"]_vars

\* C38 as stated: when a page load finds a cache text that does not parse
\* or fails the structure test, the manager starts with the default cache,
\* its queue holds every valid action of the persisted queue, and the
\* persisted queue is what it was.
C38_BadCacheKeepsQueue ==
    [][(IsRestart /\ ls.present
           /\ ~(Parses(ls.offlineData) /\ ValidOfflineData(ls.offlineData))) =>
         /\ offlineData' = EmptyOfflineData(Now)
         /\ syncQueue' = [k \in 1..Len(LoadQueue(ls.syncQueue)) |->
                             LoadQueue(ls.syncQueue)[k].id]
         /\ ls'.syncQueue = ls.syncQueue]_vars

\* C39 as stated: once clearOfflineData has returned during a drain, so that
\* the drain holds actions that are no longer queued, the drain dispatches
\* none of them any more, and when it finishes the queue and the persisted
\* queue hold only actions enqueued after the clear.
C39_ClearStopsDispatch ==
    [][\A d \in InFlight :
          LET cleared == Range(drains[d].snap) \ Range(syncQueue)
          IN cleared # {} =>
                /\ \A id \in cleared : attempts'[id] <= attempts[id]
                /\ Finishes(d) =>
                      /\ Range(syncQueue') \subseteq Range(syncQueue)
                      /\ PersistedQueue' = syncQueue']_vars

\* C40: whenever no drain is in flight, every queued action has a
\* retryCount from 0 to maxRetries - 1, also in a queue that a page load
\* has restored from localStorage.
C40_RetryCountInRange ==
    ~syncInProgress =>
        \A k \in 1..Len(syncQueue) :
           /\ objs[syncQueue[k]].retryCount >= 0
           /\ objs[syncQueue[k]].retryCount < maxRetries

====
